---------------------------- MODULE Spec2Model ----------------------------
(***************************************************************************)
(* Model of verify_topo_order.py: Kahn's topological sort of the module    *)
(* dependency mapping (topological_sort), the check of a candidate order   *)
(* against the mapping (verify_order) and the two positional checks that   *)
(* main performs after it.                                                 *)
(*                                                                         *)
(* A Python dict is modelled as the sequence of its items in insertion     *)
(* order, a list and a deque as a sequence, list indices are 0-based as in *)
(* the source.  DEPENDENCIES ranges over every mapping within the bounds,  *)
(* not only the table of lines 12-40, and the candidate order over every   *)
(* sequence of identifiers within the bounds.                              *)
(***************************************************************************)
EXTENDS Integers, Sequences, FiniteSets, TLC

VARIABLES DEPENDENCIES, pc, in_degree, adj, queue, sorted_modules,
          success, remaining, actual_order, is_valid, errors, positional

vars == <<DEPENDENCIES, pc, in_degree, adj, queue, sorted_modules,
          success, remaining, actual_order, is_valid, errors, positional>>

-----------------------------------------------------------------------------
(* Bounds of the model *)

\* total number of prerequisite entries in a mapping
MaxEdges == 3

\* length of a candidate order
MaxCand == 3

-----------------------------------------------------------------------------
(* Identifiers *)

\* Three of the module names of the source's table, in the order Python's
\* string comparison gives them.
IdOrder == <<"config", "e2e_test", "go_env_setup">>

Ids == {IdOrder[i] : i \in DOMAIN IdOrder}

Rank(x) == CHOOSE i \in DOMAIN IdOrder : IdOrder[i] = x

\* str.__lt__, as used by sorted()
Lt(x, y) == Rank(x) < Rank(y)

SeqToSet(s) == {s[i] : i \in DOMAIN s}

SeqsUpTo(S, n) == UNION {[1..k -> S] : k \in 0..n}

RECURSIVE DepAssign(_, _)
DepAssign(n, budget) ==
    IF n = 0 THEN {<< >>}
    ELSE UNION {{<<d>> \o rest : rest \in DepAssign(n - 1, budget - Len(d))} :
                d \in SeqsUpTo(Ids, budget)}

KeySeqs == {ks \in SeqsUpTo(Ids, Cardinality(Ids)) :
              \A i, j \in DOMAIN ks : i # j => ks[i] # ks[j]}

\* every dict of at most MaxEdges prerequisite entries, in every insertion order
Mappings ==
    UNION {{[i \in DOMAIN ks |-> [module |-> ks[i], deps |-> ds[i]]] :
              ds \in DepAssign(Len(ks), MaxEdges)} : ks \in KeySeqs}

Candidates == SeqsUpTo(Ids, MaxCand)

-----------------------------------------------------------------------------
(* topological_sort *)

Keys(dependencies) == {dependencies[i].module : i \in DOMAIN dependencies}

KeyList(dependencies) == [i \in DOMAIN dependencies |-> dependencies[i].module]

DepsOf(dependencies, m) ==
    LET i == CHOOSE j \in DOMAIN dependencies : dependencies[j].module = m
    IN  dependencies[i].deps

\* the number of entries of deps that pass `if dep in dependencies`
RECURSIVE CountIn(_, _)
CountIn(deps, keys) ==
    IF deps = << >> THEN 0
    ELSE (IF Head(deps) \in keys THEN 1 ELSE 0) + CountIn(Tail(deps), keys)

\* faulty variant: without the test of line 54
InDegreeCountsDangling(dependencies) ==
    [m \in Keys(dependencies) |-> Len(DepsOf(dependencies, m))]

\* faulty variant: `= 1` for `+= 1` at line 56
InDegreeAssign(dependencies) ==
    [m \in Keys(dependencies) |->
        IF CountIn(DepsOf(dependencies, m), Keys(dependencies)) > 0 THEN 1 ELSE 0]

\* in_degree after the loop of lines 52-56
InDegree(dependencies) ==
    [m \in Keys(dependencies) |->
        CountIn(DepsOf(dependencies, m), Keys(dependencies))]

\* module, once for every occurrence of d in deps
RECURSIVE Occurrences(_, _, _)
Occurrences(module, deps, d) ==
    IF deps = << >> THEN << >>
    ELSE (IF Head(deps) = d THEN <<module>> ELSE << >>)
         \o Occurrences(module, Tail(deps), d)

RECURSIVE AdjList(_, _, _)
AdjList(items, keys, d) ==
    IF items = << >> \/ d \notin keys THEN << >>
    ELSE Occurrences(Head(items).module, Head(items).deps, d)
         \o AdjList(Tail(items), keys, d)

\* adj after the loop of lines 52-56; a defaultdict(list): every identifier
\* has a list
Adj(dependencies) ==
    [d \in Ids |-> AdjList(dependencies, Keys(dependencies), d)]

\* the queue after lines 59-62
InitialQueue(dependencies, deg) ==
    SelectSeq(KeyList(dependencies), LAMBDA m : deg[m] = 0)

RECURSIVE Insert(_, _)
Insert(x, s) ==
    IF s = << >> THEN <<x>>
    ELSE IF Lt(x, Head(s)) THEN <<x>> \o s
    ELSE <<Head(s)>> \o Insert(x, Tail(s))

\* sorted()
RECURSIVE Sorted(_)
Sorted(s) ==
    IF s = << >> THEN << >>
    ELSE Insert(s[Len(s)], Sorted(SubSeq(s, 1, Len(s) - 1)))

\* faulty variant: without the sort of line 67
FrontierUnsorted(q) == q

\* line 67: queue = deque(sorted(queue))
Frontier(q) == Sorted(q)

\* faulty variant: without the test of line 73
ReadyNoCheck(deg, neighbor) == TRUE

\* line 73
Ready(deg, neighbor) == deg[neighbor] = 0

\* the loop of lines 71-74
RECURSIVE Relax(_, _, _)
Relax(neighbors, deg, q) ==
    IF neighbors = << >> THEN [in_degree |-> deg, queue |-> q]
    ELSE LET neighbor == Head(neighbors)
             deg2 == [deg EXCEPT ![neighbor] = @ - 1]
         IN  Relax(Tail(neighbors), deg2,
                   IF Ready(deg2, neighbor) THEN Append(q, neighbor) ELSE q)

\* lines 49-64
BuildGraph(dependencies) ==
    LET deg == InDegree(dependencies)
    IN  [in_degree |-> deg,
         adj |-> Adj(dependencies),
         queue |-> InitialQueue(dependencies, deg),
         sorted_modules |-> << >>]

\* one iteration of the while loop, lines 65-74
KahnIter(st) ==
    LET q == Frontier(st.queue)
        module == Head(q)
        r == Relax(st.adj[module], st.in_degree, Tail(q))
    IN  [in_degree |-> r.in_degree,
         adj |-> st.adj,
         queue |-> r.queue,
         sorted_modules |-> Append(st.sorted_modules, module)]

RECURSIVE KahnLoop(_)
KahnLoop(st) == IF st.queue = << >> THEN st ELSE KahnLoop(KahnIter(st))

\* lines 76-81: the returned order, the flag, and the set named in the message
SortResult(dependencies, order) ==
    IF Len(order) # Len(dependencies)
    THEN [order |-> order, ok |-> FALSE,
          remaining |-> Keys(dependencies) \ SeqToSet(order)]
    ELSE [order |-> order, ok |-> TRUE, remaining |-> {}]

topological_sort(dependencies) ==
    SortResult(dependencies, KahnLoop(BuildGraph(dependencies)).sorted_modules)

-----------------------------------------------------------------------------
(* verify_order *)

NoId == "-"

\* faulty variant: an identifier keeps the first index written for it
RECURSIVE PositionFirstUpTo(_, _)
PositionFirstUpTo(order, n) ==
    IF n = 0 THEN << >>
    ELSE LET prev == PositionFirstUpTo(order, n - 1)
         IN  [name \in DOMAIN prev \cup {order[n]} |->
                 IF name \in DOMAIN prev THEN prev[name] ELSE n - 1]

PositionFirst(order) == PositionFirstUpTo(order, Len(order))

\* the dict after the comprehension has consumed the first n items of
\* enumerate(actual_order): position[name] = idx overwrites
RECURSIVE PositionUpTo(_, _)
PositionUpTo(order, n) ==
    IF n = 0 THEN << >>
    ELSE LET prev == PositionUpTo(order, n - 1)
         IN  [name \in DOMAIN prev \cup {order[n]} |->
                 IF name = order[n] THEN n - 1 ELSE prev[name]]

\* line 102
PositionTable(order) == PositionUpTo(order, Len(order))

ModuleMissing(module) ==
    [kind |-> "module_missing", module |-> module, pos_module |-> -1,
     dep |-> NoId, pos_dep |-> -1]

DepMissing(dep) ==
    [kind |-> "dep_missing", module |-> NoId, pos_module |-> -1,
     dep |-> dep, pos_dep |-> -1]

OrderError(module, pm, dep, pd) ==
    [kind |-> "order", module |-> module, pos_module |-> pm,
     dep |-> dep, pos_dep |-> pd]

\* faulty variant: `>` for `>=` at line 115
ViolatesStrict(pd, pm) == pd > pm

\* line 115
Violates(pd, pm) == pd >= pm

\* the loop of lines 110-118
RECURSIVE DepErrors(_, _, _)
DepErrors(module, deps, position) ==
    IF deps = << >> THEN << >>
    ELSE LET dep == Head(deps)
         IN  (IF dep \notin DOMAIN position
                THEN <<DepMissing(dep)>>
              ELSE IF Violates(position[dep], position[module])
                THEN <<OrderError(module, position[module], dep, position[dep])>>
              ELSE << >>)
             \o DepErrors(module, Tail(deps), position)

\* the loop of lines 105-118
RECURSIVE ModuleErrors(_, _)
ModuleErrors(items, position) ==
    IF items = << >> THEN << >>
    ELSE (IF Head(items).module \notin DOMAIN position
            THEN <<ModuleMissing(Head(items).module)>>
          ELSE DepErrors(Head(items).module, Head(items).deps, position))
         \o ModuleErrors(Tail(items), position)

\* verify_order reads the global table; expected_order is not used
verify_order(order, expected_order) ==
    LET errs == ModuleErrors(DEPENDENCIES, PositionTable(order))
    IN  [valid |-> Len(errs) = 0, errors |-> errs]

-----------------------------------------------------------------------------
(* main, steps 4 and 5 *)

\* lines 175 and 182-185: order[0] of an empty list raises IndexError,
\* order.index('e2e_test') of a list without it raises ValueError
PositionalChecks(order) ==
    IF order = << >>
    THEN [crash |-> "IndexError", first_ok |-> FALSE, last_ok |-> FALSE]
    ELSE IF order[Len(order)] = "e2e_test"
    THEN [crash |-> "none", first_ok |-> order[1] = "go_env_setup", last_ok |-> TRUE]
    ELSE IF "e2e_test" \notin SeqToSet(order)
    THEN [crash |-> "ValueError", first_ok |-> order[1] = "go_env_setup",
          last_ok |-> FALSE]
    ELSE [crash |-> "none", first_ok |-> order[1] = "go_env_setup", last_ok |-> FALSE]

NotRun == [crash |-> "none", first_ok |-> FALSE, last_ok |-> FALSE]

-----------------------------------------------------------------------------
(* The state machine *)

Init ==
    /\ DEPENDENCIES \in Mappings
    /\ pc = "start"
    /\ in_degree = << >>
    /\ adj = [d \in Ids |-> << >>]
    /\ queue = << >>
    /\ sorted_modules = << >>
    /\ success = FALSE
    /\ remaining = {}
    /\ actual_order = << >>
    /\ is_valid = FALSE
    /\ errors = << >>
    /\ positional = NotRun

verifyVars == <<actual_order, is_valid, errors, positional>>

\* topological_sort, lines 49-64
Build ==
    /\ pc = "start"
    /\ LET st == BuildGraph(DEPENDENCIES)
       IN  /\ in_degree' = st.in_degree
           /\ adj' = st.adj
           /\ queue' = st.queue
           /\ sorted_modules' = st.sorted_modules
    /\ pc' = "loop"
    /\ UNCHANGED <<DEPENDENCIES, success, remaining, verifyVars>>

\* topological_sort, one iteration of lines 65-74
KahnStep ==
    /\ pc = "loop"
    /\ queue # << >>
    /\ LET st == KahnIter([in_degree |-> in_degree, adj |-> adj, queue |-> queue,
                           sorted_modules |-> sorted_modules])
       IN  /\ in_degree' = st.in_degree
           /\ queue' = st.queue
           /\ sorted_modules' = st.sorted_modules
    /\ UNCHANGED <<DEPENDENCIES, pc, adj, success, remaining, verifyVars>>

\* topological_sort, lines 76-81
SortReturn ==
    /\ pc = "loop"
    /\ queue = << >>
    /\ LET r == SortResult(DEPENDENCIES, sorted_modules)
       IN  /\ success' = r.ok
           /\ remaining' = r.remaining
    /\ pc' = "sorted"
    /\ UNCHANGED <<DEPENDENCIES, in_degree, adj, queue, sorted_modules, verifyVars>>

\* verify_order on a candidate order, lines 97-120
VerifyOrder ==
    /\ pc = "sorted"
    /\ \E candidate \in Candidates :
          LET r == verify_order(candidate, sorted_modules)
          IN  /\ actual_order' = candidate
              /\ is_valid' = r.valid
              /\ errors' = r.errors
    /\ pc' = "verified"
    /\ UNCHANGED <<DEPENDENCIES, in_degree, adj, queue, sorted_modules,
                   success, remaining, positional>>

\* main, lines 173-185; main returns at line 136 when the sort failed
MainPositional ==
    /\ pc = "verified"
    /\ success
    /\ positional' = PositionalChecks(actual_order)
    /\ pc' = "done"
    /\ UNCHANGED <<DEPENDENCIES, in_degree, adj, queue, sorted_modules,
                   success, remaining, actual_order, is_valid, errors>>

SortNext == Build \/ KahnStep \/ SortReturn

Next == Build \/ KahnStep \/ SortReturn \/ VerifyOrder \/ MainPositional

Spec == Init /\ [][Next]_vars

\* the sort alone; the loop is sequential code, so a step that can be taken is
SortSpec == Init /\ [][SortNext]_vars /\ WF_vars(SortNext)

-----------------------------------------------------------------------------
(* Vocabulary of the properties *)

\* topological_sort has returned
AfterSort == pc = "sorted"

\* verify_order has returned
Verified == pc = "verified"

KeySet == Keys(DEPENDENCIES)

\* the (module, prerequisite) pairs of the mapping, dangling ones included
PairSet ==
    UNION {{<<DEPENDENCIES[i].module, DEPENDENCIES[i].deps[j]>> :
              j \in DOMAIN DEPENDENCIES[i].deps} : i \in DOMAIN DEPENDENCIES}

Dangling == {p[2] : p \in PairSet} \ KeySet

HasDangling == Dangling # {}

HasRepeated ==
    \E i \in DOMAIN DEPENDENCIES :
        \E j, k \in DOMAIN DEPENDENCIES[i].deps :
            j # k /\ DEPENDENCIES[i].deps[j] = DEPENDENCIES[i].deps[k]

\* the in-mapping prerequisites of a key
Prereq(m) == {p[2] : p \in {q \in PairSet : q[1] = m}} \cap KeySet

RECURSIVE Closure(_, _)
Closure(S, n) ==
    IF n = 0 THEN S ELSE Closure(S \cup UNION {Prereq(x) : x \in S}, n - 1)

TransPrereq(m) == Closure(Prereq(m), Cardinality(KeySet))

OnCycle(m) == m \in TransPrereq(m)

HasCycle == \E m \in KeySet : OnCycle(m)

CycleFree(m) == ~OnCycle(m) /\ \A x \in TransPrereq(m) : ~OnCycle(x)

NoDup(s) == \A i, j \in DOMAIN s : i # j => s[i] # s[j]

\* 0-based index of x in a sequence without repetition
IndexOf(s, x) == (CHOOSE i \in DOMAIN s : s[i] = x) - 1

FirstIndex(s, x) ==
    (CHOOSE i \in DOMAIN s : s[i] = x /\ \A j \in DOMAIN s : s[j] = x => i <= j) - 1

LastIndex(s, x) ==
    (CHOOSE i \in DOMAIN s : s[i] = x /\ \A j \in DOMAIN s : s[j] = x => j <= i) - 1

CountOf(s, e) == Cardinality({i \in DOMAIN s : s[i] = e})

-----------------------------------------------------------------------------
(* C1 *)

\* C1 as stated: for any mapping, verify_order applied to the order that
\* topological_sort returned gives valid = true and no violation.
C1_SoundnessAnyMapping ==
    (Verified /\ actual_order = sorted_modules)
        => (is_valid /\ errors = << >>)

\* C1, amended: when topological_sort returned ok = true and every
\* prerequisite named in the mapping is a key, verify_order applied to the
\* returned order gives valid = true and no violation.
C1_Soundness ==
    (Verified /\ actual_order = sorted_modules /\ success /\ ~HasDangling)
        => (is_valid /\ errors = << >>)

\* Without a dangling prerequisite excluded, ok = true alone does not give
\* C1: {m: [missing]} sorts to [m], and verify_order reports 'missing'.
C1_SoundnessWhenOk ==
    (Verified /\ actual_order = sorted_modules /\ success)
        => (is_valid /\ errors = << >>)

C1_Witness ==
    /\ Verified /\ actual_order = sorted_modules /\ success /\ ~HasDangling
    /\ Len(sorted_modules) = 3 /\ Cardinality(PairSet) >= 2
    /\ is_valid

-----------------------------------------------------------------------------
(* C2 *)

\* C2: for an acyclic mapping, repeated and dangling prerequisites allowed,
\* topological_sort returns ok = true and an order holding every key exactly
\* once and nothing else.
C2_Totality ==
    (AfterSort /\ ~HasCycle)
        => /\ success
           /\ Len(sorted_modules) = Cardinality(KeySet)
           /\ SeqToSet(sorted_modules) = KeySet

C2_Witness ==
    /\ AfterSort /\ ~HasCycle /\ HasRepeated /\ HasDangling
    /\ Prereq(DEPENDENCIES[1].module) # {}
    /\ success /\ Len(sorted_modules) = 2

-----------------------------------------------------------------------------
(* C3 *)

\* C3 as stated: when ok = true, every (module, prerequisite) pair of the
\* mapping has its prerequisite in the returned order, before the module.
C3_ValidityEveryPair ==
    (AfterSort /\ success)
        => \A p \in PairSet :
              /\ p[2] \in SeqToSet(sorted_modules)
              /\ IndexOf(sorted_modules, p[2]) < IndexOf(sorted_modules, p[1])

\* C3, amended: when ok = true, every (module, prerequisite) pair of the
\* mapping whose prerequisite is a key has its prerequisite in the returned
\* order, before the module.
C3_Validity ==
    (AfterSort /\ success)
        => \A p \in PairSet :
              p[2] \in KeySet
                => /\ p[2] \in SeqToSet(sorted_modules)
                   /\ IndexOf(sorted_modules, p[2]) < IndexOf(sorted_modules, p[1])

C3_Witness ==
    /\ AfterSort /\ success /\ HasDangling
    /\ Len(sorted_modules) = 2
    /\ \E p \in PairSet : p[2] \in KeySet

-----------------------------------------------------------------------------
(* C4 *)

\* C4: for a mapping with a cycle among its keys (a self-dependency is one),
\* topological_sort returns ok = false, and the unresolved set, the keys
\* minus the returned order, holds every key on a cycle and no key that is
\* free of cycles together with all its transitive prerequisites.
C4_CycleDetection ==
    (AfterSort /\ HasCycle)
        => /\ ~success
           /\ remaining = KeySet \ SeqToSet(sorted_modules)
           /\ \A m \in KeySet : OnCycle(m) => m \in remaining
           /\ \A m \in KeySet : CycleFree(m) => m \notin remaining

C4_Witness ==
    /\ AfterSort /\ ~success
    /\ \E a, b, c \in KeySet :
          /\ a # b /\ Prereq(a) = {b} /\ Prereq(b) = {a}
          /\ CycleFree(c)
          /\ remaining = {a, b}
          /\ sorted_modules = <<c>>

-----------------------------------------------------------------------------
(* C5 *)

OutOfOrderPairs ==
    LET position == PositionTable(actual_order)
    IN  {p \in PairSet :
            /\ p[1] \in DOMAIN position
            /\ p[2] \in DOMAIN position
            /\ position[p[2]] >= position[p[1]]}

ErrorFor(p) ==
    LET position == PositionTable(actual_order)
    IN  OrderError(p[1], position[p[1]], p[2], position[p[2]])

\* C5 as stated: for every (module, prerequisite) pair with both in the
\* candidate and position[prerequisite] >= position[module], the violation
\* list holds exactly one violation naming the two and their positions, and
\* valid = false.
C5_ExactlyOneViolation ==
    Verified
        => \A p \in OutOfOrderPairs :
              CountOf(errors, ErrorFor(p)) = 1 /\ ~is_valid

\* C5, amended: for every such pair the violation list holds one violation
\* naming the two and their positions for each time the prerequisite occurs
\* in the module's prerequisite list (exactly one when it occurs once), and
\* valid = false.
C5_Completeness ==
    Verified
        => \A p \in OutOfOrderPairs :
              /\ CountOf(errors, ErrorFor(p))
                    = CountOf(DepsOf(DEPENDENCIES, p[1]), p[2])
              /\ ~is_valid

C5_Witness ==
    /\ Verified
    /\ Cardinality(OutOfOrderPairs) = 2
    /\ Len(errors) = 2
    /\ errors[1].kind = "order" /\ errors[2].kind = "order"
    /\ errors[1].module # errors[2].module

-----------------------------------------------------------------------------
(* C6 *)

\* C6: the loop of topological_sort extracts at most |keys| times, no key
\* enters the frontier twice (frontier and output together never repeat a
\* key), no key is appended twice, and the function returns.
C6_Termination ==
    /\ [](/\ Len(sorted_modules) <= Cardinality(KeySet)
          /\ NoDup(sorted_modules \o queue))
    /\ <>(pc = "sorted")

C6_Witness ==
    /\ AfterSort /\ HasCycle /\ HasRepeated
    /\ Len(sorted_modules) = 2

-----------------------------------------------------------------------------
(* C7 *)

\* C7: whatever the candidate order (empty, omitting modules, holding
\* unknown ones), the positional checks of main complete without raising.
C7_NoCrash == pc = "done" => positional.crash = "none"

-----------------------------------------------------------------------------
(* C8 *)

\* C8: every prerequisite that is not a key of the mapping is surfaced, in
\* the set topological_sort reports or as a missing-dependency violation of
\* verify_order, for every candidate order.
C8_DanglingSurfaced ==
    Verified
        => \A d \in Dangling :
              \/ d \in remaining
              \/ \E i \in DOMAIN errors :
                    errors[i].kind = "dep_missing" /\ errors[i].dep = d

-----------------------------------------------------------------------------
(* C9 *)

\* the same mapping, keys and prerequisite lists enumerated in sorted order
Canonical(dependencies) ==
    LET ks == Sorted(KeyList(dependencies))
    IN  [i \in DOMAIN ks |->
            [module |-> ks[i], deps |-> Sorted(DepsOf(dependencies, ks[i]))]]

\* C9: every extraction removes the smallest identifier of the frontier, and
\* the returned order, flag and unresolved set are those of the same mapping
\* enumerated in any other order of keys and of prerequisite entries.
C9_Determinism ==
    /\ [](pc = "sorted"
            => [order |-> sorted_modules, ok |-> success, remaining |-> remaining]
                 = topological_sort(Canonical(DEPENDENCIES)))
    /\ [][(pc = "loop" /\ sorted_modules' # sorted_modules)
            => LET module == sorted_modules'[Len(sorted_modules')]
               IN  /\ module \in SeqToSet(queue)
                   /\ \A x \in SeqToSet(queue) : ~Lt(x, module)]_vars

C9_Witness ==
    /\ AfterSort /\ success
    /\ Len(sorted_modules) = 3
    /\ KeyList(DEPENDENCIES) # Sorted(KeyList(DEPENDENCIES))
    /\ \E i \in DOMAIN DEPENDENCIES :
          DEPENDENCIES[i].deps # Sorted(DEPENDENCIES[i].deps)
    /\ sorted_modules # KeyList(DEPENDENCIES)

-----------------------------------------------------------------------------
(* C10 *)

HasDuplicate(s) == ~NoDup(s)

\* C10 as stated: the position table maps a module to the index of its
\* first occurrence in the candidate, and the violations are those computed
\* from first-occurrence indices.
C10_FirstOccurrence ==
    Verified
        => /\ \A name \in SeqToSet(actual_order) :
                PositionTable(actual_order)[name] = FirstIndex(actual_order, name)
           /\ errors = ModuleErrors(DEPENDENCIES,
                  [name \in SeqToSet(actual_order) |-> FirstIndex(actual_order, name)])

\* C10, amended: the position table maps a module to the index of its last
\* occurrence in the candidate, and the violations are those computed from
\* last-occurrence indices.
C10_LastOccurrence ==
    Verified
        => /\ \A name \in SeqToSet(actual_order) :
                PositionTable(actual_order)[name] = LastIndex(actual_order, name)
           /\ errors = ModuleErrors(DEPENDENCIES,
                  [name \in SeqToSet(actual_order) |-> LastIndex(actual_order, name)])

C10_Witness ==
    /\ Verified
    /\ HasDuplicate(actual_order)
    /\ is_valid
    /\ PairSet # {}
    /\ ModuleErrors(DEPENDENCIES,
          [name \in SeqToSet(actual_order) |-> FirstIndex(actual_order, name)]) # << >>

=============================================================================
